---- MODULE Spec2Model ----
(***************************************************************************)
(* BoolPySearch: tokenizer, inverted index, the three boolean retrieval    *)
(* operators and the session object (load / search / reset) that owns the  *)
(* documents and the index.                                                *)
(*                                                                         *)
(* Text is a sequence of one-character strings; a term is a sequence of    *)
(* one-character strings; a dictionary is a function whose DOMAIN is its   *)
(* key set.  The index returned by create_inverted_index is a              *)
(* defaultdict(set): reading a missing key inserts it with an empty set,   *)
(* so every operation that reads the index returns the index as well.      *)
(* The only plain dict ever held in self.inverted_index is the empty one,  *)
(* and perform_search returns before any lookup when the index is empty.   *)
(***************************************************************************)
EXTENDS Integers, Sequences, FiniteSets, TLC

VARIABLES
    documents,       \* self.documents: filename -> content
    inverted_index,  \* self.inverted_index: term -> set of filenames
    folder_path,     \* self.folder_path
    query,           \* the query argument of the boolean search under check
    search_type,     \* the operator applied to it
    all_docs,        \* the all_docs argument of boolean_not_search
    result,          \* the set last returned by a boolean search
    last,            \* observer: the handler (and its outcome) that ran last
    prev,            \* observer: the handler that ran before it
    zero_loaded      \* observer: a load found zero documents, and no load
                     \* has succeeded since

vars == <<documents, inverted_index, folder_path, query, search_type,
          all_docs, result, last, prev, zero_loaded>>

(***************************************************************************)
(* Bounds of the bounded input sets.                                       *)
(***************************************************************************)
MaxDocLen == 3
MaxQueryLen == 3

Chars == {"A", "b", "c", " "}

Texts(n) == UNION {[1..k -> Chars] : k \in 0..n}

Range(s) == {s[i] : i \in DOMAIN s}

EmptyMap == [k \in {} |-> {}]

(***************************************************************************)
(* Tokenizer                                                               *)
(***************************************************************************)
stopwords == {
    <<"a">>, <<"a","n">>, <<"t","h","e">>, <<"i","s">>, <<"i","n">>,
    <<"o","f">>, <<"f","o","r">>, <<"a","n","d">>, <<"t","o">>, <<"o","n">>,
    <<"b","y">>, <<"t","h","a","t">>, <<"i","t">>, <<"f","r","o","m">>,
    <<"t","h","i","s">>, <<"w","i","t","h">>, <<"a","s">>, <<"a","t">>,
    <<"a","r","e">>, <<"w","a","s">>, <<"w","e","r","e">>, <<"h","a","s">>,
    <<"h","a","v","e">>, <<"h","a","d">>, <<"b","e">>, <<"b","e","e","n">>,
    <<"b","u","t">>, <<"o","r">>, <<"n","o","t">>,
    <<"w","h","i","c","h">>, <<"w","i","l","l">>,
    <<"t","h","r","o","u","g","h">> }

UpperCase == <<"A","B","C","D","E","F","G","H","I","J","K","L","M",
               "N","O","P","Q","R","S","T","U","V","W","X","Y","Z">>

LowerCase == <<"a","b","c","d","e","f","g","h","i","j","k","l","m",
               "n","o","p","q","r","s","t","u","v","w","x","y","z">>

Digits == {"0","1","2","3","4","5","6","7","8","9"}

\* the characters the pattern \w matches
WordChars == Range(LowerCase) \cup Range(UpperCase) \cup Digits \cup {"_"}

\* str.lower() on one character
\* (variant: the character is kept as it is)
lower_char_keep(c) == c

lower_char(c) ==
    IF \E i \in DOMAIN UpperCase : UpperCase[i] = c
    THEN LowerCase[CHOOSE i \in DOMAIN UpperCase : UpperCase[i] = c]
    ELSE c

\* text.lower()
str_lower(text) == [i \in DOMAIN text |-> lower_char(text[i])]

\* re.findall(r'\b\w+\b', s): the maximal runs of word characters, in order
RECURSIVE findall_from(_, _, _, _)
findall_from(s, i, cur, acc) ==
    IF i > Len(s)
    THEN IF cur = <<>> THEN acc ELSE Append(acc, cur)
    ELSE IF s[i] \in WordChars
         THEN findall_from(s, i + 1, Append(cur, s[i]), acc)
         ELSE findall_from(s, i + 1, <<>>,
                           IF cur = <<>> THEN acc ELSE Append(acc, cur))

findall_words(s) == findall_from(s, 1, <<>>, <<>>)

not_stopword(token) == token \notin stopwords

preprocess(text) ==
    LET tokens == findall_words(str_lower(text))
    IN  SelectSeq(tokens, not_stopword)

(***************************************************************************)
(* Inverted index                                                          *)
(***************************************************************************)
\* inverted_index[term] on a defaultdict(set): the value, and the index
\* after the read (a missing key is inserted with an empty set)
getitem(index, term) ==
    IF term \in DOMAIN index
    THEN [value |-> index[term], index |-> index]
    ELSE [value |-> {}, index |-> index @@ (term :> {})]

\* inverted_index[token].add(doc_id)
\* (variant: inverted_index[token] = {doc_id})
index_add_overwrite(index, token, doc_id) ==
    [t \in DOMAIN index \cup {token} |->
        IF t = token THEN {doc_id} ELSE index[t]]

index_add(index, token, doc_id) ==
    LET g == getitem(index, token)
    IN  [g.index EXCEPT ![token] = g.value \cup {doc_id}]

\* for token in tokens: inverted_index[token].add(doc_id)
RECURSIVE index_tokens(_, _, _)
index_tokens(index, tokens, doc_id) ==
    IF tokens = <<>> THEN index
    ELSE index_tokens(index_add(index, Head(tokens), doc_id),
                      Tail(tokens), doc_id)

\* for doc_id, text in documents.items(): ...
RECURSIVE index_documents(_, _, _)
index_documents(index, docs, ids) ==
    IF ids = {} THEN index
    ELSE LET doc_id == CHOOSE d \in ids : TRUE
         IN  index_documents(
                 index_tokens(index, preprocess(docs[doc_id]), doc_id),
                 docs, ids \ {doc_id})

create_inverted_index(docs) == index_documents(EmptyMap, docs, DOMAIN docs)

(***************************************************************************)
(* Boolean retrieval                                                       *)
(***************************************************************************)
RECURSIVE and_loop(_, _, _)
and_loop(terms, res, index) ==
    IF terms = <<>> THEN [result |-> res, index |-> index]
    ELSE LET g == getitem(index, Head(terms))
         IN  and_loop(Tail(terms), res \cap g.value, g.index)

RECURSIVE or_loop(_, _, _)
or_loop(terms, res, index) ==
    IF terms = <<>> THEN [result |-> res, index |-> index]
    ELSE LET g == getitem(index, Head(terms))
         IN  or_loop(Tail(terms), res \cup g.value, g.index)

RECURSIVE not_loop(_, _, _)
not_loop(terms, res, index) ==
    IF terms = <<>> THEN [result |-> res, index |-> index]
    ELSE LET g == getitem(index, Head(terms))
         IN  not_loop(Tail(terms), res \ g.value, g.index)

\* (variant: the terms after the first are not intersected)
boolean_and_search_first(q, index) ==
    LET query_terms == preprocess(q)
    IN  IF query_terms = <<>>
        THEN [result |-> {}, index |-> index]
        ELSE LET g == getitem(index, query_terms[1])
             IN  [result |-> g.value, index |-> g.index]

boolean_and_search(q, index) ==
    LET query_terms == preprocess(q)
    IN  IF query_terms = <<>>
        THEN [result |-> {}, index |-> index]
        ELSE LET g == getitem(index, query_terms[1])
             IN  and_loop(Tail(query_terms), g.value, g.index)

\* (variant: only the first term is united)
boolean_or_search_first(q, index) ==
    LET query_terms == preprocess(q)
    IN  IF query_terms = <<>>
        THEN [result |-> {}, index |-> index]
        ELSE or_loop(<<query_terms[1]>>, {}, index)

boolean_or_search(q, index) ==
    LET query_terms == preprocess(q)
    IN  IF query_terms = <<>>
        THEN [result |-> {}, index |-> index]
        ELSE or_loop(query_terms, {}, index)

\* (variant: only the first term is removed)
boolean_not_search_first(q, index, universe) ==
    LET query_terms == preprocess(q)
    IN  IF query_terms = <<>>
        THEN [result |-> {}, index |-> index]
        ELSE not_loop(<<query_terms[1]>>, universe, index)

boolean_not_search(q, index, universe) ==
    LET query_terms == preprocess(q)
    IN  IF query_terms = <<>>
        THEN [result |-> {}, index |-> index]
        ELSE not_loop(query_terms, universe, index)

SearchTypes == {"AND", "OR", "NOT"}

\* the dispatch of perform_search on the combobox value
run_search(t, q, index, universe) ==
    CASE t = "AND" -> boolean_and_search(q, index)
      [] t = "OR"  -> boolean_or_search(q, index)
      [] t = "NOT" -> boolean_not_search(q, index, universe)

(***************************************************************************)
(* The file system the loader reads: folder -> (readable, name -> content) *)
(***************************************************************************)
TxtFiles == {"d1.txt", "d2.txt", "d3.txt"}

\* filename.endswith(".txt")
endswith_txt(filename) == filename \in TxtFiles

Folders ==
    [ pets  |-> [readable |-> TRUE,
                 files |-> ( "d1.txt" :> <<"t","h","e"," ","c","a","t"," ","s","a","t">>
                          @@ "d2.txt" :> <<"t","h","e"," ","d","o","g"," ","s","a","t">>
                          @@ "d3.txt" :> <<"C","a","t"," ","a","n","d"," ","D","O","G">>
                          @@ "notes.md" :> <<"f","i","s","h">> )],
      birds |-> [readable |-> TRUE,
                 files |-> ( "d1.txt" :> <<"A"," ","b","i","r","d">>
                          @@ "d2.txt" :> <<"T","h","e">> )],
      empty |-> [readable |-> TRUE,
                 files |-> ( "notes.md" :> <<"c","a","t">> )],
      gone  |-> [readable |-> FALSE,
                 files |-> ( "d1.txt" :> <<"c","a","t">> )] ]

\* what filedialog.askdirectory() can return; "" when the dialog is cancelled
Paths == DOMAIN Folders \cup {""}

SessionQueries == {
    <<>>,
    <<"t","h","e">>,
    <<"c","a","t"," ","s","a","t">>,
    <<"f","i","s","h">>,
    <<"b","i","r","d"," ","F","i","s","h">> }

load_documents_from_folder(path) ==
    IF ~Folders[path].readable
    THEN EmptyMap
    ELSE LET files == Folders[path].files
         IN  [f \in {n \in DOMAIN files : endswith_txt(n)} |-> files[f]]

\* display_search_results reads self.documents[doc_id] for every doc_id
display_search_results(res, docs) ==
    IF res \subseteq DOMAIN docs THEN "search_shown" ELSE "search_keyerror"

SearchRan == {"search_shown", "search_keyerror"}

(***************************************************************************)
(* The session: BoolPySearch.__init__ and its three handlers               *)
(***************************************************************************)
Init ==
    /\ documents = EmptyMap
    /\ inverted_index = EmptyMap
    /\ folder_path = ""
    /\ query = <<>>
    /\ search_type = "AND"
    /\ all_docs = {}
    /\ result = {}
    /\ last = "init"
    /\ prev = "init"
    /\ zero_loaded = FALSE

load_documents(path) ==
    /\ folder_path' = path
    /\ prev' = last
    /\ IF path = ""
       THEN /\ last' = "load_cancel"
            /\ UNCHANGED <<documents, inverted_index, zero_loaded>>
       ELSE LET docs == load_documents_from_folder(path)
            IN  /\ documents' = docs
                /\ IF docs # EmptyMap
                   THEN /\ inverted_index' = create_inverted_index(docs)
                        /\ last' = "load_ok"
                        /\ zero_loaded' = FALSE
                   ELSE /\ UNCHANGED inverted_index
                        /\ IF Folders[path].readable
                           THEN last' = "load_empty" /\ zero_loaded' = TRUE
                           ELSE last' = "load_failed" /\ UNCHANGED zero_loaded
    /\ UNCHANGED <<query, search_type, all_docs, result>>

perform_search(q, t) ==
    /\ prev' = last
    /\ IF DOMAIN inverted_index = {}
       THEN /\ last' = "search_noindex"
            /\ UNCHANGED <<inverted_index, result>>
       ELSE IF q = <<>>
       THEN /\ last' = "search_noquery"
            /\ UNCHANGED <<inverted_index, result>>
       ELSE LET r == run_search(t, q, inverted_index, DOMAIN documents)
            IN  /\ inverted_index' = r.index
                /\ result' = r.result
                /\ last' = display_search_results(r.result, documents)
    /\ UNCHANGED <<documents, folder_path, query, search_type, all_docs,
                   zero_loaded>>

\* (variant: self.inverted_index is not reset)
clear_all_keep_index ==
    /\ documents' = EmptyMap
    /\ folder_path' = ""
    /\ last' = "clear"
    /\ prev' = last
    /\ UNCHANGED <<inverted_index, query, search_type, all_docs, result,
                   zero_loaded>>

clear_all ==
    /\ documents' = EmptyMap
    /\ inverted_index' = EmptyMap
    /\ folder_path' = ""
    /\ last' = "clear"
    /\ prev' = last
    /\ UNCHANGED <<query, search_type, all_docs, result, zero_loaded>>

Next ==
    \/ \E path \in Paths : load_documents(path)
    \/ \E q \in SessionQueries, t \in SearchTypes : perform_search(q, t)
    \/ clear_all

Spec == Init /\ [][Next]_vars

(***************************************************************************)
(* create_inverted_index applied to every bounded document mapping         *)
(***************************************************************************)
IndexDocIds == {"d1.txt", "d2.txt"}

InitIndex ==
    /\ documents \in UNION {[S -> Texts(MaxDocLen)] : S \in SUBSET IndexDocIds}
    /\ inverted_index = EmptyMap
    /\ folder_path = ""
    /\ query = <<>>
    /\ search_type = "AND"
    /\ all_docs = {}
    /\ result = {}
    /\ last = "init"
    /\ prev = "init"
    /\ zero_loaded = FALSE

BuildIndex ==
    /\ last = "init"
    /\ inverted_index' = create_inverted_index(documents)
    /\ last' = "built"
    /\ prev' = last
    /\ UNCHANGED <<documents, folder_path, query, search_type, all_docs,
                   result, zero_loaded>>

NextIndex == BuildIndex

SpecIndex == InitIndex /\ [][NextIndex]_vars

(***************************************************************************)
(* The three boolean searches applied to every bounded query, index and    *)
(* universe.  An index maps some of IndexTerms to sets of documents; a key *)
(* with an empty set is one an earlier lookup inserted.                    *)
(***************************************************************************)
IndexTerms == {<<"b">>, <<"c">>}

Indexes == UNION {[S -> SUBSET IndexDocIds] : S \in SUBSET IndexTerms}

InitQuery ==
    /\ documents = EmptyMap
    /\ inverted_index \in Indexes
    /\ folder_path = ""
    /\ query \in Texts(MaxQueryLen)
    /\ search_type = "AND"
    /\ all_docs \in SUBSET IndexDocIds
    /\ result = {}
    /\ last = "init"
    /\ prev = "init"
    /\ zero_loaded = FALSE

Search(t) ==
    /\ last = "init"
    /\ LET r == run_search(t, query, inverted_index, all_docs)
       IN  /\ inverted_index' = r.index
           /\ result' = r.result
    /\ search_type' = t
    /\ last' = "searched"
    /\ prev' = last
    /\ UNCHANGED <<documents, folder_path, query, all_docs, zero_loaded>>

AndSearch == Search("AND")

OrSearch == Search("OR")

NotSearch == Search("NOT")

NextQuery == AndSearch \/ OrSearch \/ NotSearch

SpecQuery == InitQuery /\ [][NextQuery]_vars

(***************************************************************************)
(* Reference semantics used by the properties                              *)
(***************************************************************************)
\* the posting set of a term; a term that is no key has the empty one
Posting(index, t) == IF t \in DOMAIN index THEN index[t] ELSE {}

RefOr(terms, index) == UNION {Posting(index, t) : t \in Range(terms)}

RefAnd(terms, index) ==
    {d \in RefOr(terms, index) : \A t \in Range(terms) : d \in Posting(index, t)}

Reference(t, terms, index, universe) ==
    IF terms = <<>> THEN {}
    ELSE CASE t = "AND" -> RefAnd(terms, index)
           [] t = "OR"  -> RefOr(terms, index)
           [] t = "NOT" -> universe \ RefOr(terms, index)

\* the terms of a document mapping
TermsOf(docs) == UNION {Range(preprocess(docs[d])) : d \in DOMAIN docs}

\* index holds exactly the terms of docs, each with exactly its documents
ExactIndex(index, docs) ==
    /\ DOMAIN index = TermsOf(docs)
    /\ \A t \in DOMAIN index :
           index[t] = {d \in DOMAIN docs : t \in Range(preprocess(docs[d]))}

\* a query string whose terms are the given ones: the terms joined by spaces
RECURSIVE Unparse(_)
Unparse(terms) ==
    IF terms = <<>> THEN <<>>
    ELSE IF Len(terms) = 1 THEN terms[1]
    ELSE terms[1] \o <<" ">> \o Unparse(Tail(terms))

\* the terms of a query other than u
Remaining(terms, u) == SelectSeq(terms, LAMBDA t : t # u)

(***************************************************************************)
(* C1: each boolean search returns the reference result: the empty set for *)
(* a query with no terms, otherwise the intersection (AND), the union (OR) *)
(* or the universe minus the union (NOT) of the posting sets of the query  *)
(* terms, a term absent from the index having the empty posting set.       *)
(***************************************************************************)
C1_SearchIsReference ==
    [][last' = "searched" =>
         result' = Reference(search_type', preprocess(query),
                             inverted_index, all_docs)]_vars

C1_Witness ==
    /\ last = "searched"
    /\ search_type = "AND"
    /\ Cardinality(Range(preprocess(query))) = 2
    /\ result # {}
    /\ \E t \in Range(preprocess(query)) : inverted_index[t] # result

(***************************************************************************)
(* C2: a search leaves the index as it was: same keys, same posting sets.  *)
(***************************************************************************)
C2_SearchKeepsIndex ==
    [][last' \in SearchRan => inverted_index' = inverted_index]_vars

(***************************************************************************)
(* C3: after create_inverted_index, D is in index[T] exactly when T occurs *)
(* in preprocess(content(D)); no document outside the mapping is in any    *)
(* posting set; the empty mapping gives an index without terms.            *)
(***************************************************************************)
C3_IndexCorrect ==
    last = "built" =>
        /\ \A d \in DOMAIN documents :
             \A t \in DOMAIN inverted_index \cup TermsOf(documents) :
                 d \in Posting(inverted_index, t)
                     <=> t \in Range(preprocess(documents[d]))
        /\ \A t \in DOMAIN inverted_index :
               inverted_index[t] \subseteq DOMAIN documents
        /\ (documents = EmptyMap => DOMAIN inverted_index = {})

C3_Witness ==
    /\ last = "built"
    /\ \E t \in DOMAIN inverted_index : Cardinality(inverted_index[t]) = 2
    /\ \E d \in DOMAIN documents :
           /\ Len(preprocess(documents[d])) = 2
           /\ Len(findall_words(documents[d])) = 2
    /\ \E d \in DOMAIN documents :
           Len(preprocess(documents[d])) < Len(findall_words(documents[d]))

(***************************************************************************)
(* C4: a failed load leaves documents and index as they were.              *)
(***************************************************************************)
C4_FailedLoadKeepsState ==
    [][last' = "load_failed" =>
         documents' = documents /\ inverted_index' = inverted_index]_vars

(***************************************************************************)
(* C5: from a load that finds zero documents until the next load that      *)
(* succeeds, the index is empty and every search result is empty.          *)
(***************************************************************************)
C5_ZeroLoadEmptiesIndex ==
    zero_loaded =>
        /\ DOMAIN inverted_index = {}
        /\ (last \in SearchRan => result = {})

(***************************************************************************)
(* C6: the NOT result is the universe minus the OR result of the same      *)
(* query, for every query, also one with no terms.                         *)
(***************************************************************************)
C6_NotIsComplement ==
    [][(last' = "searched" /\ search_type' = "NOT") =>
         result' = all_docs \ boolean_or_search(query, inverted_index).result]_vars

\* C6 as amended: the NOT result is the universe minus the OR result when
\* the query has at least one term; for a query with no terms both the NOT
\* and the OR result are empty.
C6_NotIsComplementOfTerms ==
    [][(last' = "searched" /\ search_type' = "NOT") =>
         IF preprocess(query) # <<>>
         THEN result' = all_docs \ boolean_or_search(query, inverted_index).result
         ELSE /\ result' = {}
              /\ boolean_or_search(query, inverted_index).result = {}]_vars

C6_Witness ==
    /\ last = "searched"
    /\ search_type = "NOT"
    /\ Len(preprocess(query)) = 2
    /\ result # {}
    /\ result # all_docs

(***************************************************************************)
(* C7: with a term u of the query that has no document, AND returns the    *)
(* empty set; OR and NOT return what they return for the remaining terms,  *)
(* also when u is the only term.                                           *)
(***************************************************************************)
C7_UnindexedTermLaw ==
    [][last' = "searched" =>
         \A u \in Range(preprocess(query)) :
             Posting(inverted_index, u) = {} =>
                 LET rest == Unparse(Remaining(preprocess(query), u))
                 IN  CASE search_type' = "AND" -> result' = {}
                       [] search_type' = "OR" ->
                            result' = boolean_or_search(rest, inverted_index).result
                       [] search_type' = "NOT" ->
                            result' = boolean_not_search(rest, inverted_index,
                                                         all_docs).result]_vars

\* C7 as amended: the NOT law holds when terms other than u remain; when u
\* is the only term, NOT returns the whole universe.
C7_UnindexedTermLawAmended ==
    [][last' = "searched" =>
         \A u \in Range(preprocess(query)) :
             Posting(inverted_index, u) = {} =>
                 LET rest == Unparse(Remaining(preprocess(query), u))
                 IN  CASE search_type' = "AND" -> result' = {}
                       [] search_type' = "OR" ->
                            result' = boolean_or_search(rest, inverted_index).result
                       [] search_type' = "NOT" ->
                            IF Remaining(preprocess(query), u) # <<>>
                            THEN result' = boolean_not_search(rest, inverted_index,
                                                              all_docs).result
                            ELSE result' = all_docs]_vars

C7_Witness ==
    /\ last = "searched"
    /\ search_type = "AND"
    /\ Len(preprocess(query)) = 2
    /\ result = {}
    /\ \E u \in Range(preprocess(query)) :
           /\ inverted_index[u] = {}
           /\ \E t \in Range(preprocess(query)) : inverted_index[t] # {}

(***************************************************************************)
(* C8: clear_all leaves documents and index empty, a second clear_all      *)
(* changes nothing, and after a successful load the documents are the      *)
(* folder's text files and the index holds exactly their terms and         *)
(* documents.                                                              *)
(***************************************************************************)
C8_ResetAndReload ==
    [][/\ last' = "clear" =>
            documents' = EmptyMap /\ inverted_index' = EmptyMap
       /\ (last = "clear" /\ last' = "clear") =>
            /\ documents' = documents
            /\ inverted_index' = inverted_index
            /\ folder_path' = folder_path
       /\ last' = "load_ok" =>
            /\ DOMAIN documents'
                   = {f \in DOMAIN Folders[folder_path'].files : endswith_txt(f)}
            /\ \A f \in DOMAIN documents' :
                   documents'[f] = Folders[folder_path'].files[f]
            /\ ExactIndex(inverted_index', documents')]_vars

C8_Witness ==
    /\ prev = "clear"
    /\ last = "load_ok"
    /\ folder_path = "birds"
    /\ DOMAIN inverted_index = {<<"b","i","r","d">>}

(***************************************************************************)
(* C9: no key of the session's index is a stopword or has an uppercase     *)
(* letter.                                                                 *)
(***************************************************************************)
C9_TermsNormalized ==
    \A t \in DOMAIN inverted_index :
        /\ t \notin stopwords
        /\ \A i \in DOMAIN t : t[i] \notin Range(UpperCase)

C9_Witness ==
    /\ last = "search_shown"
    /\ \E t \in DOMAIN inverted_index : inverted_index[t] = {}
    /\ \E d \in DOMAIN documents :
           /\ \E i \in DOMAIN documents[d] : documents[d][i] \in Range(UpperCase)
           /\ \E w \in Range(findall_words(str_lower(documents[d]))) :
                  w \in stopwords

(***************************************************************************)
(* C10: every document in the result handed to display_search_results is a *)
(* key of self.documents.                                                  *)
(***************************************************************************)
C10_ResultsAreLoaded ==
    last \in SearchRan => result \subseteq DOMAIN documents

====
